---- MODULE Spec2Model ----
(***************************************************************************)
(* The persistence layer of coordinatord (src/db/mod.rs, src/db/schema.rs) *)
(* as a state machine.  The backing store is the relational catalog (which *)
(* tables, columns and uniqueness constraints exist) and the committed     *)
(* rows of each table.  Every public operation is an independent           *)
(* asynchronous call: it owns a session, runs its statements one await at  *)
(* a time, and returns a result.  Calls interleave at their await points.  *)
(*                                                                         *)
(* Spec starts from the store that schema.rs sets up.  On it the           *)
(* statements of store_spend_tx and fetch_spend_tx name a table and a      *)
(* column that do not exist, and both end at their first prepare.          *)
(* SpecProvisioned starts from a store that already holds the tables those *)
(* statements name, and runs them to the end; SpecVouts does so for        *)
(* outpoints whose vout lies anywhere in the u32 range.  SpecPopulated     *)
(* starts from a store in which earlier runs of the process left           *)
(* signatures, and stores and fetches signatures.                          *)
(***************************************************************************)
EXTENDS Integers, Sequences, FiniteSets, TLC

(* ------------------------------ bounds --------------------------------- *)

\* Number of calls (sessions) of the data operations a behaviour holds.
MaxCalls == 2

\* Longest outpoint vector passed to store_spend_tx.
MaxOutpoints == 2

(* --------------------------- domain values ----------------------------- *)

Calls == 1..MaxCalls

\* Transaction bodies (everything a txid commits to) and witnesses.
TxBodies == {"b1", "b2"}
TxWitnesses == {"w1", "w2"}

\* bitcoin::Txid: the hash of a transaction body.
Txids == {<<"txid", b>> : b \in TxBodies}

PublicKeys == {"k1", "k2"}
Signatures == {"g1", "g2"}

\* bitcoin::Transaction: the body and the witness data of its inputs.
Transactions == [body : TxBodies, witness : TxWitnesses]

\* A u32 as its top bit and its low 31 bits.
U32(hi, lo) == [hi |-> hi, lo |-> lo]
Vouts == {U32(0, 0), U32(1, 0)}

\* The vouts at the ends of the two halves of the u32 range: 0, 1, 2^31 - 1,
\* 2^31, 2^31 + 1 and 2^32 - 1.
EdgeVouts ==
    {U32(0, 0), U32(0, 1), U32(0, 2147483647), U32(1, 0), U32(1, 1), U32(1, 2147483647)}

\* bitcoin::OutPoint
OutPoints == [txid : {<<"txid", "b1">>}, vout : Vouts]

OutPointVecs == UNION {[1..n -> OutPoints] : n \in 0..MaxOutpoints}

EdgeOutPoints == [txid : {<<"txid", "b1">>}, vout : EdgeVouts]

(* --------------------- serialisation at the boundary ------------------- *)

\* Signature::serialize_der and Signature::from_der
serialize_der(sig) == <<"der", sig>>
from_der(bytes) == IF bytes[1] = "der" THEN bytes[2] ELSE "panic"

\* PublicKey::serialize (compressed point) and PublicKey::from_slice
serialize_pubkey(key) == <<"compressed", key>>
from_slice(bytes) == IF bytes[1] = "compressed" THEN bytes[2] ELSE "panic"

\* Txid::as_ref / encode::serialize(&txid): the 32 bytes of the hash
txid_bytes(t) == <<"bytes32", t[2]>>

\* Transaction::txid: the hash of the body, which leaves the witness out
txid_of(tx) == <<"txid", tx.body>>

\* encode::serialize(&transaction) and encode::deserialize
serialize_tx(tx) == <<"tx", tx.body, tx.witness>>
deserialize_tx(bytes) ==
    IF bytes[1] = "tx" THEN [body |-> bytes[2], witness |-> bytes[3]] ELSE "panic"

\* A conversion that puts every vout beyond i32::MAX at i32::MAX.
as_i32_saturating(v) == IF v.hi = 1 THEN 2147483647 ELSE v.lo

\* `vout as i32`: the two's-complement reading of the 32 bits
as_i32(v) == IF v.hi = 1 THEN (v.lo - 2147483647) - 1 ELSE v.lo

(* ------------------------------- schema -------------------------------- *)

Table(name, cols, unique) == [table |-> name, cols |-> cols, unique |-> unique]

\* schema.rs with the UNIQUE of signatures.signature left out.
SCHEMA_SignatureNotUnique ==
    << Table("version", {"version"}, {{"version"}}),
       Table("signatures", {"txid", "pubkey", "signature"}, {}),
       Table("spend_txs", {"deposit_txid", "deposit_vout", "transaction"},
             {{"deposit_txid"}, {"transaction"}}) >>

\* The CREATE TABLE IF NOT EXISTS statements of schema.rs, in order.
SCHEMA ==
    << Table("version", {"version"}, {{"version"}}),
       Table("signatures", {"txid", "pubkey", "signature"}, {{"signature"}}),
       Table("spend_txs", {"deposit_txid", "deposit_vout", "transaction"},
             {{"deposit_txid"}, {"transaction"}}) >>

TableNames(cat) == {t.table : t \in cat}
TableDef(cat, name) == CHOOSE t \in cat : t.table = name

\* CREATE TABLE IF NOT EXISTS: an existing table of that name is kept as it is.
CreateTableIfNotExists(cat, t) ==
    IF t.table \in TableNames(cat) THEN cat ELSE cat \cup {t}

RECURSIVE batch_execute(_, _)
batch_execute(cat, stmts) ==
    IF stmts = <<>> THEN cat
    ELSE batch_execute(CreateTableIfNotExists(cat, Head(stmts)), Tail(stmts))

(* ----------------------------- statements ------------------------------ *)

\* A statement names the columns it uses of each table, and the conflict
\* target of its ON CONFLICT clause when it has one.
Statement(uses, target) == [uses |-> uses, target |-> target]
NoTarget == [table |-> "", cols |-> {}]

SelectSignatureStmt == Statement({<<"signatures", {"signature"}>>}, NoTarget)

InsertSignatureStmt ==
    Statement({<<"signatures", {"txid", "pubkey", "signature"}>>}, NoTarget)

SelectSigsStmt ==
    Statement({<<"signatures", {"txid", "pubkey", "signature"}>>}, NoTarget)

InsertSpendTxStmt ==
    Statement({<<"spend_txs", {"txid", "transaction"}>>}, NoTarget)

UpsertOutpointStmt ==
    Statement({<<"spend_outpoints", {"deposit_txid", "deposit_vout", "spend_txid"}>>},
              [table |-> "spend_outpoints", cols |-> {"deposit_txid", "deposit_vout"}])

SelectSpendTxStmt ==
    Statement({<<"spend_txs", {"txid", "transaction"}>>,
               <<"spend_outpoints", {"deposit_txid", "deposit_vout", "spend_txid"}>>},
              NoTarget)

\* What preparing a statement against the catalog answers: "none", or the
\* backend's error.
prepare_typed(cat, stmt) ==
    IF \E u \in stmt.uses : u[1] \notin TableNames(cat)
        THEN "undefined_table"
    ELSE IF \E u \in stmt.uses : ~(u[2] \subseteq TableDef(cat, u[1]).cols)
        THEN "undefined_column"
    ELSE IF /\ stmt.target.table # ""
            /\ stmt.target.cols \notin TableDef(cat, stmt.target.table).unique
        THEN "invalid_column_reference"
    ELSE "none"

UniqueOf(cat, name) ==
    IF name \in TableNames(cat) THEN TableDef(cat, name).unique ELSE {}

Range(s) == {s[i] : i \in 1..Len(s)}

\* Whether inserting row breaks one of the uniqueness constraints.
Conflicts(rows, row, unique) ==
    \E u \in unique : \E r \in Range(rows) : \A col \in u : r[col] = row[col]

(* ------------------------------- results ------------------------------- *)

Pending == [status |-> "pending", data |-> "none"]
Ok(v) == [status |-> "Ok", data |-> v]
Duplicate == [status |-> "Duplicate", data |-> "none"]
Postgres(code) == [status |-> "Postgres", data |-> code]
Dropped == [status |-> "dropped", data |-> "none"]

\* A conversion that reports every backend error as a duplicate.
DbErrorFromAsDuplicate(code) == Duplicate

\* DbError::from(tokio_postgres::Error)
DbErrorFrom(code) == Postgres(code)

Unit == "unit"
None == [some |-> FALSE, value |-> "none"]
Some(v) == [some |-> TRUE, value |-> v]

(* -------------------------------- state -------------------------------- *)

VARIABLES
    catalog,          \* the tables the store holds
    signatures,       \* committed rows of signatures
    spend_txs,        \* committed rows of spend_txs
    spend_outpoints,  \* committed rows of spend_outpoints
    op,               \* per call: the operation invoked
    arg,              \* per call: its arguments
    pc,               \* per call: the await it stands at
    idx,              \* per call: outpoints store_spend_tx's loop has done
    txn,              \* per call: the rows its open transaction has written
    result,           \* per call: what it returned
    log               \* per call: the error its connection task logged

vars ==
    <<catalog, signatures, spend_txs, spend_outpoints, op, arg, pc, idx, txn, result,
      log>>

store == <<catalog, signatures, spend_txs, spend_outpoints>>

NoTxn == [txs |-> <<>>, ops |-> <<>>]

IdleCalls ==
    /\ op = [c \in Calls |-> "none"]
    /\ arg = [c \in Calls |-> "none"]
    /\ pc = [c \in Calls |-> "idle"]
    /\ idx = [c \in Calls |-> 0]
    /\ txn = [c \in Calls |-> NoTxn]
    /\ result = [c \in Calls |-> Pending]
    /\ log = [c \in Calls |-> "none"]

\* A fresh database with no table yet, or one that maybe_create_db set up
\* when the process started before.
Init ==
    /\ catalog \in {{}, batch_execute({}, SCHEMA)}
    /\ signatures = <<>>
    /\ spend_txs = <<>>
    /\ spend_outpoints = <<>>
    /\ IdleCalls

\* The call returns r; its session is dropped.
Return(c, r) ==
    /\ pc' = [pc EXCEPT ![c] = "done"]
    /\ result' = [result EXCEPT ![c] = r]
    /\ txn' = [txn EXCEPT ![c] = NoTxn]

Goto(c, label) ==
    /\ pc' = [pc EXCEPT ![c] = label]
    /\ UNCHANGED <<result, txn>>

\* What a step of a call leaves alone unless it says otherwise.
call == <<op, arg, idx, log>>

\* Calls take the slots in order.
Invoke(c, name, a) ==
    /\ pc[c] = "idle"
    /\ \A d \in Calls : d < c => pc[d] # "idle"
    /\ op' = [op EXCEPT ![c] = name]
    /\ arg' = [arg EXCEPT ![c] = a]
    /\ pc' = [pc EXCEPT ![c] = "connect"]
    /\ UNCHANGED <<store, idx, txn, result, log>>

Running(c) == pc[c] \notin {"idle", "done"}

(* ------------------------- establish_connection ------------------------ *)

FirstAwait(name) ==
    CASE name = "maybe_create_db" -> "batch_execute"
      [] name = "store_sig" -> "prepare_select"
      [] name = "fetch_sigs" -> "prepare_select"
      [] name = "store_spend_tx" -> "begin"
      [] name = "fetch_spend_tx" -> "prepare_select"

\* config.connect(NoTls).await?: the session, or the error returned as it is.
establish_connection(c) ==
    /\ pc[c] = "connect"
    /\ \/ Goto(c, FirstAwait(op[c]))
       \/ Return(c, Postgres("connect"))
    /\ UNCHANGED <<store, call>>

\* The errors connection.await can end with.
ConnectionErrors == {"io"}

\* The error of the connection task handed to the caller as the result.
ConnectionErrorReturned(c) ==
    /\ Running(c)
    /\ pc[c] # "connect"
    /\ \E e \in ConnectionErrors :
          /\ log' = [log EXCEPT ![c] = e]
          /\ Return(c, Postgres(e))
    /\ UNCHANGED <<store, op, arg, idx>>

\* The connection task ends with an error while the call awaits a statement:
\* the task logs its error, and the statement fails on the closed session
\* before it takes effect; an open transaction is never committed.
ConnectionError(c) ==
    /\ Running(c)
    /\ pc[c] # "connect"
    /\ \E e \in ConnectionErrors : log' = [log EXCEPT ![c] = e]
    /\ Return(c, Postgres("closed"))
    /\ UNCHANGED <<store, op, arg, idx>>

\* The connection task ends with an error when the call has had the answer
\* to its last statement and has returned: the task logs its error, and
\* what the call returned stays.
ConnectionErrorAfterReturn(c) ==
    /\ pc[c] = "done"
    /\ result[c].status \in {"Ok", "Duplicate", "Postgres"}
    /\ result[c].status = "Postgres" => result[c].data \notin {"connect", "closed"}
    /\ log[c] = "none"
    /\ \E e \in ConnectionErrors : log' = [log EXCEPT ![c] = e]
    /\ UNCHANGED <<store, op, arg, idx, pc, txn, result>>

\* The caller drops the call's future at an await, before the awaited
\* statement takes effect: nothing is returned, the session is dropped and an
\* open transaction is rolled back.
Abandon(c) ==
    /\ Running(c)
    /\ Return(c, Dropped)
    /\ UNCHANGED <<store, call>>

(* ---------------------------- maybe_create_db -------------------------- *)

InvokeMaybeCreateDb(c) == Invoke(c, "maybe_create_db", "none")

\* A bootstrap that drops the tables and creates them anew.
maybe_create_db_recreate(c) ==
    /\ op[c] = "maybe_create_db"
    /\ pc[c] = "batch_execute"
    /\ catalog' = batch_execute({}, SCHEMA)
    /\ signatures' = <<>>
    /\ spend_txs' = <<>>
    /\ spend_outpoints' = <<>>
    /\ Return(c, Ok(Unit))
    /\ UNCHANGED call

\* client.batch_execute(SCHEMA).await?; Ok(())
maybe_create_db(c) ==
    /\ op[c] = "maybe_create_db"
    /\ pc[c] = "batch_execute"
    /\ catalog' = batch_execute(catalog, SCHEMA)
    /\ Return(c, Ok(Unit))
    /\ UNCHANGED <<signatures, spend_txs, spend_outpoints, call>>

(* ------------------------------- store_sig ----------------------------- *)

InvokeStoreSig(c) ==
    \E t \in Txids, k \in PublicKeys, g \in Signatures :
        Invoke(c, "store_sig", [txid |-> t, pubkey |-> k, signature |-> g])

SigRow(a) ==
    [txid |-> txid_bytes(a.txid),
     pubkey |-> serialize_pubkey(a.pubkey),
     signature |-> serialize_der(a.signature)]

\* The pre-check run against the wrong column.
SelectSignatureByTxid(rows, sig) == SelectSeq(rows, LAMBDA r : r.txid = sig)

\* SELECT signature FROM signatures WHERE signature = $1
SelectSignature(rows, sig) == SelectSeq(rows, LAMBDA r : r.signature = sig)

store_sig_prepare_select(c) ==
    /\ op[c] = "store_sig"
    /\ pc[c] = "prepare_select"
    /\ LET e == prepare_typed(catalog, SelectSignatureStmt) IN
          IF e = "none" THEN Goto(c, "query") ELSE Return(c, DbErrorFrom(e))
    /\ UNCHANGED <<store, call>>

store_sig_query(c) ==
    /\ op[c] = "store_sig"
    /\ pc[c] = "query"
    /\ IF SelectSignature(signatures, serialize_der(arg[c].signature)) # <<>>
          THEN Return(c, Duplicate)
          ELSE Goto(c, "prepare_insert")
    /\ UNCHANGED <<store, call>>

store_sig_prepare_insert(c) ==
    /\ op[c] = "store_sig"
    /\ pc[c] = "prepare_insert"
    /\ LET e == prepare_typed(catalog, InsertSignatureStmt) IN
          IF e = "none" THEN Goto(c, "execute") ELSE Return(c, DbErrorFrom(e))
    /\ UNCHANGED <<store, call>>

\* INSERT INTO signatures (txid, pubkey, signature) VALUES ($1, $2, $3)
store_sig_execute(c) ==
    /\ op[c] = "store_sig"
    /\ pc[c] = "execute"
    /\ IF Conflicts(signatures, SigRow(arg[c]), UniqueOf(catalog, "signatures"))
          THEN /\ Return(c, DbErrorFrom("unique_violation"))
               /\ UNCHANGED signatures
          ELSE /\ signatures' = Append(signatures, SigRow(arg[c]))
               /\ Return(c, Ok(Unit))
    /\ UNCHANGED <<catalog, spend_txs, spend_outpoints, call>>

(* ------------------------------- fetch_sigs ---------------------------- *)

InvokeFetchSigs(c) == \E t \in Txids : Invoke(c, "fetch_sigs", [txid |-> t])

\* The selection run against the wrong column.
SelectSigsBySignature(rows, txid) == SelectSeq(rows, LAMBDA r : r.signature = txid)

\* SELECT pubkey, signature FROM signatures WHERE txid = $1
SelectSigs(rows, txid) == SelectSeq(rows, LAMBDA r : r.txid = txid)

\* The rows of a query without ORDER BY come in an order the store chooses.
Orderings(rows) ==
    {[i \in 1..Len(rows) |-> rows[p[i]]] : p \in Permutations(1..Len(rows))}

\* A map that keeps the first signature it is given for a public key.
RECURSIVE InsertAllFirstWins(_, _)
InsertAllFirstWins(map, rows) ==
    IF rows = <<>> THEN map
    ELSE LET key == from_slice(Head(rows).pubkey)
             sig == from_der(Head(rows).signature)
             dom == DOMAIN map \cup {key}
         IN InsertAllFirstWins([k \in dom |-> IF k \in DOMAIN map THEN map[k] ELSE sig],
                               Tail(rows))

\* BTreeMap::insert of every row in turn: a later row replaces an earlier one
\* of the same public key.
RECURSIVE InsertAll(_, _)
InsertAll(map, rows) ==
    IF rows = <<>> THEN map
    ELSE LET key == from_slice(Head(rows).pubkey)
             sig == from_der(Head(rows).signature)
             dom == DOMAIN map \cup {key}
         IN InsertAll([k \in dom |-> IF k = key THEN sig ELSE map[k]], Tail(rows))

EmptyMap == [k \in {} |-> "none"]

\* Every mapping fetch_sigs(txid) can return on the committed rows.
FetchSigsResults(rows, txid) ==
    {InsertAll(EmptyMap, q) : q \in Orderings(SelectSigs(rows, txid_bytes(txid)))}

fetch_sigs_prepare_select(c) ==
    /\ op[c] = "fetch_sigs"
    /\ pc[c] = "prepare_select"
    /\ LET e == prepare_typed(catalog, SelectSigsStmt) IN
          IF e = "none" THEN Goto(c, "query") ELSE Return(c, Postgres(e))
    /\ UNCHANGED <<store, call>>

fetch_sigs_query(c) ==
    /\ op[c] = "fetch_sigs"
    /\ pc[c] = "query"
    /\ \E m \in FetchSigsResults(signatures, arg[c].txid) : Return(c, Ok(m))
    /\ UNCHANGED <<store, call>>

(* ----------------------------- store_spend_tx -------------------------- *)

InvokeStoreSpendTx(c, vecs, txs) ==
    \E o \in vecs, tx \in txs :
        Invoke(c, "store_spend_tx", [outpoints |-> o, transaction |-> tx])

\* let bitcoin_txid = encode::serialize(&transaction.txid())
bitcoin_txid(tx) == txid_bytes(txid_of(tx))

SpendTxRow(tx) == [txid |-> bitcoin_txid(tx), transaction |-> serialize_tx(tx)]

OutpointKey(outpoint) ==
    [deposit_txid |-> txid_bytes(outpoint.txid), deposit_vout |-> as_i32(outpoint.vout)]

OutpointRow(outpoint, tx) ==
    [deposit_txid |-> txid_bytes(outpoint.txid),
     deposit_vout |-> as_i32(outpoint.vout),
     spend_txid |-> bitcoin_txid(tx)]

KeyOf(row) == [deposit_txid |-> row.deposit_txid, deposit_vout |-> row.deposit_vout]

\* An insert that takes no notice of the rows already there.
InsertAlways(rows, row, unique) == Append(rows, row)

\* INSERT ... ON CONFLICT DO NOTHING: a row that breaks any uniqueness
\* constraint of the table is silently not inserted.
InsertOrNothing(rows, row, unique) ==
    IF Conflicts(rows, row, unique) THEN rows ELSE Append(rows, row)

\* An insert of the outpoint row with no conflict clause and no constraint.
UpsertAppend(rows, row) == Append(rows, row)

\* An upsert whose update is not held to the row of the outpoint.
UpsertEvery(rows, row) ==
    IF \E i \in 1..Len(rows) : KeyOf(rows[i]) = KeyOf(row)
        THEN [i \in 1..Len(rows) |-> [rows[i] EXCEPT !.spend_txid = row.spend_txid]]
        ELSE Append(rows, row)

\* INSERT ... ON CONFLICT (deposit_txid, deposit_vout) DO UPDATE SET ... =
\* EXCLUDED...: the row of that outpoint is overwritten, or a new row added.
Upsert(rows, row) ==
    IF \E i \in 1..Len(rows) : KeyOf(rows[i]) = KeyOf(row)
        THEN [i \in 1..Len(rows) |-> IF KeyOf(rows[i]) = KeyOf(row) THEN row ELSE rows[i]]
        ELSE Append(rows, row)

RECURSIVE UpsertAll(_, _)
UpsertAll(rows, writes) ==
    IF writes = <<>> THEN rows ELSE UpsertAll(Upsert(rows, Head(writes)), Tail(writes))

\* The statement run on the session itself: its row is committed at once.
db_tx_execute_autocommit(committed, written, rows) ==
    [committed |-> committed \o rows, written |-> written]

\* A statement run on db_tx (client.transaction()): the row it writes stays
\* with the open transaction; the committed rows are as they were.
db_tx_execute(committed, written, rows) ==
    [committed |-> committed, written |-> written \o rows]

\* What the statements of the open transaction of c read: the committed rows
\* and its own writes.
TxView(c) ==
    [txs |-> spend_txs \o txn[c].txs, ops |-> UpsertAll(spend_outpoints, txn[c].ops)]

InTransaction(c) ==
    /\ op[c] = "store_spend_tx"
    /\ pc[c] \in {"prepare_insert", "execute_insert", "prepare_upsert",
                  "execute_upsert", "commit"}

\* The calls whose open transaction has written a row that the statement c
\* stands at would conflict with: the statement waits for them to end.
WaitsFor(c) ==
    IF op[c] # "store_spend_tx" THEN {}
    ELSE IF pc[c] = "execute_insert" THEN
        {d \in Calls \ {c} :
            /\ InTransaction(d)
            /\ Conflicts(txn[d].txs, SpendTxRow(arg[c].transaction),
                         UniqueOf(catalog, "spend_txs"))}
    ELSE IF pc[c] = "execute_upsert" THEN
        {d \in Calls \ {c} :
            /\ InTransaction(d)
            /\ \E r \in Range(txn[d].ops) :
                  KeyOf(r) = OutpointKey(arg[c].outpoints[idx[c] + 1])}
    ELSE {}

RECURSIVE WaitClosure(_, _)
WaitClosure(S, n) ==
    IF n = 0 THEN S
    ELSE WaitClosure(S \cup UNION {WaitsFor(d) : d \in S}, n - 1)

Deadlocked(c) == c \in WaitClosure(WaitsFor(c), MaxCalls)

\* let db_tx = client.transaction().await?
store_spend_tx_begin(c) ==
    /\ op[c] = "store_spend_tx"
    /\ pc[c] = "begin"
    /\ Goto(c, "prepare_insert")
    /\ UNCHANGED <<store, call>>

store_spend_tx_prepare_insert(c) ==
    /\ op[c] = "store_spend_tx"
    /\ pc[c] = "prepare_insert"
    /\ LET e == prepare_typed(catalog, InsertSpendTxStmt) IN
          IF e = "none" THEN Goto(c, "execute_insert") ELSE Return(c, Postgres(e))
    /\ UNCHANGED <<store, call>>

AfterOutpoint(c, n) ==
    IF n < Len(arg[c].outpoints) THEN "prepare_upsert" ELSE "commit"

\* INSERT INTO spend_txs (txid, transaction) VALUES ($1, $2) ON CONFLICT DO NOTHING
store_spend_tx_execute_insert(c) ==
    /\ op[c] = "store_spend_tx"
    /\ pc[c] = "execute_insert"
    /\ WaitsFor(c) = {}
    /\ LET row == SpendTxRow(arg[c].transaction)
           new == InsertOrNothing(TxView(c).txs, row, UniqueOf(catalog, "spend_txs"))
           w == db_tx_execute(spend_txs, txn[c].txs,
                              IF new = TxView(c).txs THEN <<>> ELSE <<row>>)
       IN /\ spend_txs' = w.committed
          /\ txn' = [txn EXCEPT ![c].txs = w.written]
    /\ pc' = [pc EXCEPT ![c] = AfterOutpoint(c, 0)]
    /\ UNCHANGED <<catalog, signatures, spend_outpoints, call, result>>

store_spend_tx_prepare_upsert(c) ==
    /\ op[c] = "store_spend_tx"
    /\ pc[c] = "prepare_upsert"
    /\ LET e == prepare_typed(catalog, UpsertOutpointStmt) IN
          IF e = "none" THEN Goto(c, "execute_upsert") ELSE Return(c, Postgres(e))
    /\ UNCHANGED <<store, call>>

\* INSERT INTO spend_outpoints ... ON CONFLICT (deposit_txid, deposit_vout) DO UPDATE
store_spend_tx_execute_upsert(c) ==
    /\ op[c] = "store_spend_tx"
    /\ pc[c] = "execute_upsert"
    /\ WaitsFor(c) = {}
    /\ LET row == OutpointRow(arg[c].outpoints[idx[c] + 1], arg[c].transaction)
           w == db_tx_execute(spend_outpoints, txn[c].ops, <<row>>)
       IN /\ spend_outpoints' = w.committed
          /\ txn' = [txn EXCEPT ![c].ops = w.written]
    /\ idx' = [idx EXCEPT ![c] = idx[c] + 1]
    /\ pc' = [pc EXCEPT ![c] = AfterOutpoint(c, idx[c] + 1)]
    /\ UNCHANGED <<catalog, signatures, spend_txs, op, arg, result, log>>

\* db_tx.commit().await: the rows the transaction wrote become the committed
\* rows, all in one step.
store_spend_tx_commit(c) ==
    /\ op[c] = "store_spend_tx"
    /\ pc[c] = "commit"
    /\ spend_txs' = TxView(c).txs
    /\ spend_outpoints' = TxView(c).ops
    /\ Return(c, Ok(Unit))
    /\ UNCHANGED <<catalog, signatures, call>>

\* Two open transactions wait for each other: the store ends one of them
\* with deadlock_detected, and its writes are rolled back.
deadlock_detected(c) ==
    /\ InTransaction(c)
    /\ Deadlocked(c)
    /\ Return(c, Postgres("deadlock_detected"))
    /\ UNCHANGED <<store, call>>

(* ----------------------------- fetch_spend_tx -------------------------- *)

InvokeFetchSpendTx(c) ==
    \E o \in OutPoints : Invoke(c, "fetch_spend_tx", [outpoint |-> o])

InvokeFetchSpendTxAt(c, outpoints) ==
    \E o \in outpoints : Invoke(c, "fetch_spend_tx", [outpoint |-> o])

\* SELECT transaction FROM spend_txs as txs INNER JOIN spend_outpoints as ops
\* ON txs.txid = ops.spend_txid WHERE ops.deposit_txid = $1 AND ops.deposit_vout = $2
SelectSpendTx(txs, ops, key) ==
    {t.transaction : t \in
        {t \in Range(txs) : \E o \in Range(ops) :
            /\ t.txid = o.spend_txid
            /\ KeyOf(o) = key}}

\* Every value fetch_spend_tx(outpoint) can return on the committed rows:
\* the row the store returns first, deserialized, or None.
FetchSpendTxResults(txs, ops, outpoint) ==
    LET found == SelectSpendTx(txs, ops, OutpointKey(outpoint)) IN
        IF found = {} THEN {None} ELSE {Some(deserialize_tx(b)) : b \in found}

fetch_spend_tx_prepare_select(c) ==
    /\ op[c] = "fetch_spend_tx"
    /\ pc[c] = "prepare_select"
    /\ LET e == prepare_typed(catalog, SelectSpendTxStmt) IN
          IF e = "none" THEN Goto(c, "query") ELSE Return(c, Postgres(e))
    /\ UNCHANGED <<store, call>>

fetch_spend_tx_query(c) ==
    /\ op[c] = "fetch_spend_tx"
    /\ pc[c] = "query"
    /\ \E r \in FetchSpendTxResults(spend_txs, spend_outpoints, arg[c].outpoint) :
          Return(c, Ok(r))
    /\ UNCHANGED <<store, call>>

(* ---------------------------- specifications --------------------------- *)

\* The steps of a call that every store lets happen.
Step(c) ==
    \/ InvokeMaybeCreateDb(c)
    \/ InvokeFetchSpendTx(c)
    \/ establish_connection(c)
    \/ ConnectionError(c)
    \/ ConnectionErrorAfterReturn(c)
    \/ Abandon(c)
    \/ maybe_create_db(c)
    \/ store_spend_tx_begin(c)
    \/ store_spend_tx_prepare_insert(c)
    \/ fetch_spend_tx_prepare_select(c)

SigStep(c) ==
    \/ InvokeStoreSig(c)
    \/ InvokeFetchSigs(c)
    \/ store_sig_prepare_select(c)
    \/ store_sig_query(c)
    \/ store_sig_prepare_insert(c)
    \/ store_sig_execute(c)
    \/ fetch_sigs_prepare_select(c)
    \/ fetch_sigs_query(c)

SpendStep(c) ==
    \/ store_spend_tx_execute_insert(c)
    \/ store_spend_tx_prepare_upsert(c)
    \/ store_spend_tx_execute_upsert(c)
    \/ store_spend_tx_commit(c)
    \/ deadlock_detected(c)
    \/ fetch_spend_tx_query(c)

\* On the store that schema.rs sets up, every store_spend_tx ends at its first
\* statement whatever it is given: one input stands for all.
OneOutPointVec == {<<>>, <<[txid |-> <<"txid", "b1">>, vout |-> U32(0, 0)]>>}
OneTransaction == {[body |-> "b1", witness |-> "w1"]}

Next ==
    \E c \in Calls :
        \/ Step(c)
        \/ SigStep(c)
        \/ InvokeStoreSpendTx(c, OneOutPointVec, OneTransaction)

Spec == Init /\ [][Next]_vars

\* A store that already holds the two tables the statements of store_spend_tx
\* and fetch_spend_tx name, keyed as section 3 of the specification describes
\* them; CREATE TABLE IF NOT EXISTS keeps them.  It starts with a signature
\* that a store_sig stored before.
ProvisionedTables ==
    { Table("spend_txs", {"txid", "transaction"}, {{"txid"}, {"transaction"}}),
      Table("spend_outpoints", {"deposit_txid", "deposit_vout", "spend_txid"},
            {{"deposit_txid", "deposit_vout"}}) }

InitProvisioned ==
    /\ catalog = batch_execute(ProvisionedTables, SCHEMA)
    /\ signatures = <<SigRow([txid |-> <<"txid", "b1">>, pubkey |-> "k1",
                              signature |-> "g1"])>>
    /\ spend_txs = <<>>
    /\ spend_outpoints = <<>>
    /\ IdleCalls

NextProvisioned ==
    \E c \in Calls :
        \/ Step(c)
        \/ SpendStep(c)
        \/ InvokeStoreSpendTx(c, OutPointVecs, Transactions)

SpecProvisioned == InitProvisioned /\ [][NextProvisioned]_vars

\* Calls that store a transaction for one outpoint and fetch by one outpoint,
\* the vout of the outpoint anywhere in the u32 range; the transactions are
\* of different identifiers.  No two such calls wait for each other.
EdgeOutPointVecs == {<<o>> : o \in EdgeOutPoints}
EdgeTransactions == [body : TxBodies, witness : {"w1"}]

NextVouts ==
    \E c \in Calls :
        \/ InvokeStoreSpendTx(c, EdgeOutPointVecs, EdgeTransactions)
        \/ InvokeFetchSpendTxAt(c, EdgeOutPoints)
        \/ establish_connection(c)
        \/ ConnectionError(c)
        \/ ConnectionErrorAfterReturn(c)
        \/ Abandon(c)
        \/ store_spend_tx_begin(c)
        \/ store_spend_tx_prepare_insert(c)
        \/ store_spend_tx_execute_insert(c)
        \/ store_spend_tx_prepare_upsert(c)
        \/ store_spend_tx_execute_upsert(c)
        \/ store_spend_tx_commit(c)
        \/ fetch_spend_tx_prepare_select(c)
        \/ fetch_spend_tx_query(c)

SpecVouts == InitProvisioned /\ [][NextVouts]_vars

\* The rows the store_sig calls of earlier runs of the process can have left
\* in signatures: any rows, no two of them of the same signature.
SigRows == {SigRow(a) : a \in [txid : Txids, pubkey : PublicKeys, signature : Signatures]}

StoredSignatures ==
    {s \in UNION {[1..n -> SigRows] : n \in 0..Cardinality(Signatures)} :
        \A i, j \in 1..Len(s) : s[i].signature = s[j].signature => i = j}

\* The process started again on the store it bootstrapped and filled before.
InitPopulated ==
    /\ catalog = batch_execute({}, SCHEMA)
    /\ signatures \in StoredSignatures
    /\ spend_txs = <<>>
    /\ spend_outpoints = <<>>
    /\ IdleCalls

\* The callers store and fetch signatures only.
NextPopulated ==
    \E c \in Calls :
        \/ SigStep(c)
        \/ establish_connection(c)
        \/ ConnectionError(c)
        \/ ConnectionErrorAfterReturn(c)
        \/ Abandon(c)

SpecPopulated == InitPopulated /\ [][NextPopulated]_vars

(* -------------------------------- claims ------------------------------- *)

StoreSigCalls == {c \in Calls : op[c] = "store_sig"}

SameSignature(c, d) ==
    /\ c # d
    /\ op[c] = "store_sig"
    /\ op[d] = "store_sig"
    /\ arg[c].signature = arg[d].signature

Succeeded(c) == result[c].status = "Ok"

\* What a call returns when its session fails or its caller drops it.
SessionFailures == {Postgres("connect"), Postgres("closed"), Dropped}

RowsWithSignature(rows, sig) == {i \in 1..Len(rows) : rows[i].signature = sig}

\* C1: in every reachable state the signatures table holds at most one row of
\* any signature byte-string, whatever txid and pubkey it was stored under.
C1_SignatureUnique ==
    \A i, j \in 1..Len(signatures) :
        signatures[i].signature = signatures[j].signature => i = j

\* Two calls stored the same signature under different txids and pubkeys, both
\* have returned, and the table holds the one row.
C1_Witness ==
    \E c, d \in Calls :
        /\ SameSignature(c, d)
        /\ arg[c].txid # arg[d].txid
        /\ arg[c].pubkey # arg[d].pubkey
        /\ Succeeded(c)
        /\ result[d].status \in {"Duplicate", "Postgres"}
        /\ pc[d] = "done"
        /\ Cardinality(RowsWithSignature(signatures, serialize_der(arg[c].signature))) = 1

\* A store_sig call that has not yet run its pre-check while another call has
\* already stored the same signature: every later call is such a call.
LaterStore(c) ==
    /\ op[c] = "store_sig"
    /\ pc[c] \in {"connect", "prepare_select", "query"}
    /\ \E d \in Calls : SameSignature(c, d) /\ Succeeded(d)

\* C2: once store_sig(t1, p1, s) has succeeded, a later store_sig(t2, p2, s)
\* never inserts, leaves the signatures table as it is with exactly one row
\* for s, and returns Duplicate unless its session fails or it is dropped.
C2_LaterStoreIsDuplicate ==
    [][\A c \in Calls :
          (LaterStore(c) /\ pc'[c] # pc[c]) =>
              /\ signatures' = signatures
              /\ Cardinality(RowsWithSignature(signatures',
                                               serialize_der(arg[c].signature))) = 1
              /\ pc'[c] = "done" => result'[c] \in SessionFailures \cup {Duplicate}
              /\ (pc[c] = "query" /\ result'[c] \notin SessionFailures) =>
                    result'[c] = Duplicate]_vars

C2_Witness ==
    \E c, d \in Calls :
        /\ SameSignature(c, d)
        /\ arg[c].txid # arg[d].txid
        /\ arg[c].pubkey # arg[d].pubkey
        /\ Succeeded(d)
        /\ result[c] = Duplicate
        /\ Len(signatures) = 1

\* Every statement of mod.rs.
Statements ==
    {SelectSignatureStmt, InsertSignatureStmt, SelectSigsStmt,
     InsertSpendTxStmt, UpsertOutpointStmt, SelectSpendTxStmt}

\* C5: after maybe_create_db has succeeded, every table and column the
\* statements of store_sig, fetch_sigs, store_spend_tx and fetch_spend_tx
\* name exists, so that none of them fails on a missing table or column.
C5_StatementsPrepare ==
    (\E c \in Calls : op[c] = "maybe_create_db" /\ Succeeded(c)) =>
        \A stmt \in Statements : prepare_typed(catalog, stmt) = "none"

\* The store_sig calls for sig that passed the pre-check and ran their INSERT.
Inserters(g) ==
    {c \in StoreSigCalls :
        /\ arg[c].signature = g
        /\ \/ Succeeded(c)
           \/ result[c] = Postgres("unique_violation")}

C6_OneInsertWins ==
    \A g \in Signatures :
        /\ Cardinality({c \in Inserters(g) : Succeeded(c)}) <= 1
        /\ Inserters(g) # {} => \E c \in Inserters(g) : Succeeded(c)

\* C6: of the store_sig calls for the same signature that passed the pre-check
\* before any of them inserted, exactly one INSERT succeeds; the others fail
\* on the uniqueness constraint with DbError::Postgres, never with Duplicate,
\* and no two of them return Ok.
C6_RaceEndsInBackendError ==
    [][/\ C6_OneInsertWins'
       /\ \A c \in StoreSigCalls :
             pc[c] \in {"prepare_insert", "execute"} =>
                 /\ result'[c] # Duplicate
                 /\ (pc[c] = "execute" /\ pc'[c] = "done"
                        /\ result'[c] \notin SessionFailures) =>
                       \/ result'[c] = Ok(Unit)
                       \/ /\ result'[c] = Postgres("unique_violation")
                          /\ \E d \in Calls : SameSignature(c, d) /\ Succeeded(d)]_vars

C6_Witness ==
    \E c, d \in Calls :
        /\ SameSignature(c, d)
        /\ Succeeded(c)
        /\ result[d] = Postgres("unique_violation")

\* The signatures that successful store_sig calls stored under (t, k).
StoredUnder(t, k) ==
    {arg[d].signature : d \in {d \in StoreSigCalls :
        Succeeded(d) /\ arg[d].txid = t /\ arg[d].pubkey = k}}

\* C7 as stated: once store_sig(t, p, s) has returned Ok, fetch_sigs(t)
\* returns a mapping in which p is present and mapped to s.
C7_FetchReturnsStored ==
    \A c \in StoreSigCalls :
        Succeeded(c) =>
            \A m \in FetchSigsResults(signatures, arg[c].txid) :
                /\ arg[c].pubkey \in DOMAIN m
                /\ m[arg[c].pubkey] = arg[c].signature

\* C7 as amended: once store_sig(t, p, s) has returned Ok, fetch_sigs(t)
\* returns a mapping in which p is present and mapped to one of the signatures
\* stored under t and p: to s when no other signature was stored under them.
C7_FetchReturnsOneStored ==
    \A c \in StoreSigCalls :
        Succeeded(c) =>
            \A m \in FetchSigsResults(signatures, arg[c].txid) :
                /\ arg[c].pubkey \in DOMAIN m
                /\ m[arg[c].pubkey] \in StoredUnder(arg[c].txid, arg[c].pubkey)
                /\ StoredUnder(arg[c].txid, arg[c].pubkey) = {arg[c].signature} =>
                      m[arg[c].pubkey] = arg[c].signature

\* A store_sig has succeeded and a fetch_sigs of its txid has returned the
\* mapping holding its public key and signature.
C7_Witness ==
    \E c, f \in Calls :
        /\ op[c] = "store_sig"
        /\ Succeeded(c)
        /\ op[f] = "fetch_sigs"
        /\ Succeeded(f)
        /\ arg[f].txid = arg[c].txid
        /\ arg[c].pubkey \in DOMAIN result[f].data
        /\ result[f].data[arg[c].pubkey] = arg[c].signature

StoreSpendTxCalls == {c \in Calls : op[c] = "store_spend_tx"}

OutPointsOf(c) == Range(arg[c].outpoints)

\* The step in which store_spend_tx call c commits and returns Ok.
Commits(c) ==
    /\ op[c] = "store_spend_tx"
    /\ pc[c] = "commit"
    /\ pc'[c] = "done"
    /\ result'[c].status = "Ok"

\* The rows store_spend_tx(O, T) writes, from first to last.
OutpointRows(c) ==
    [i \in 1..Len(arg[c].outpoints) |->
        OutpointRow(arg[c].outpoints[i], arg[c].transaction)]

\* What fetch_spend_tx(o) can return in this state.
Fetch(o) == FetchSpendTxResults(spend_txs, spend_outpoints, o)

MappedTo(rows, o, txid) ==
    \E i \in 1..Len(rows) : KeyOf(rows[i]) = OutpointKey(o) /\ rows[i].spend_txid = txid

AlreadyStored(c) ==
    /\ \E d \in StoreSpendTxCalls : d # c /\ Succeeded(d) /\ arg[d] = arg[c]
    /\ \A o \in OutPointsOf(c) :
          MappedTo(spend_outpoints, o, bitcoin_txid(arg[c].transaction))

FetchSpendTxCalls == {c \in Calls : op[c] = "fetch_spend_tx"}

\* The session of the call failed, or its caller dropped it.
SessionFailed(c) ==
    \/ result[c].status = "dropped"
    \/ result[c].status = "Postgres" /\ result[c].data \in {"connect", "closed"}

\* No store_spend_tx that returned Ok had o among its outpoints.
NeverClaimed(o) == \A c \in StoreSpendTxCalls : Succeeded(c) => o \notin OutPointsOf(c)

\* The store holds every table of schema.rs: maybe_create_db has run on it.
Bootstrapped == batch_execute(catalog, SCHEMA) = catalog

\* C11: on a bootstrapped store, fetch_spend_tx(o) for an outpoint o that no
\* successful store_spend_tx ever included returns Ok(None): no error, and no
\* transaction stored for another outpoint.
C11_UnclaimedFetchIsNone ==
    \A f \in FetchSpendTxCalls :
        (/\ Bootstrapped
         /\ pc[f] = "done"
         /\ ~SessionFailed(f)
         /\ NeverClaimed(arg[f].outpoint)) =>
            /\ result[f].status = "Ok"
            /\ result[f].data = None

\* C12: maybe_create_db invoked on a store that is already bootstrapped and
\* holds rows returns Ok, unless its session fails, and leaves the tables and
\* every row of every table as they were.
C12_BootstrapIdempotent ==
    [][\A c \in Calls :
          (/\ op[c] = "maybe_create_db"
           /\ pc[c] = "batch_execute"
           /\ pc'[c] = "done"
           /\ Bootstrapped) =>
              /\ SessionFailed(c)' \/ result'[c] = Ok(Unit)
              /\ catalog' = catalog
              /\ signatures' = signatures
              /\ spend_txs' = spend_txs
              /\ spend_outpoints' = spend_outpoints]_vars

\* maybe_create_db has returned Ok on a bootstrapped store, and the signature
\* a store_sig stored is still there.
C12_Witness ==
    \E c, d \in Calls :
        /\ op[c] = "maybe_create_db"
        /\ Succeeded(c)
        /\ op[d] = "store_sig"
        /\ Succeeded(d)
        /\ Bootstrapped
        /\ signatures = <<SigRow(arg[d])>>

\* The awaits of an operation on its own statements.
StatementAwaits(name) ==
    CASE name = "maybe_create_db" -> {"batch_execute"}
      [] name = "store_sig" -> {"prepare_select", "query", "prepare_insert", "execute"}
      [] name = "fetch_sigs" -> {"prepare_select", "query"}
      [] name = "store_spend_tx" -> {"begin", "prepare_insert", "execute_insert",
                                     "prepare_upsert", "execute_upsert", "commit"}
      [] name = "fetch_spend_tx" -> {"prepare_select", "query"}
      [] OTHER -> {}

\* C13: the error the connection task of a session ends with is logged and
\* never returned to the caller.  It is not the error of any result; when it
\* comes after the call has returned, what the call returned stays; and a
\* call returns an error only from the await that establishes its connection
\* or from an await on one of its own statements.
C13_ConnectionErrorOnlyLogged ==
    [][\A c \in Calls :
          /\ result'[c].status = "Postgres" => result'[c].data \notin ConnectionErrors
          /\ (pc[c] = "done" /\ log'[c] # log[c]) =>
                /\ pc'[c] = "done"
                /\ result'[c] = result[c]
          /\ (pc[c] # "done" /\ pc'[c] = "done"
                 /\ result'[c].status \in {"Postgres", "Duplicate"}) =>
                pc[c] \in {"connect"} \cup StatementAwaits(op[c])]_vars

\* The connection task of one call logged an error after the call had
\* returned Ok; that of another logged one while the call awaited a
\* statement, which failed on the closed session.
C13_Witness ==
    \E c, d \in Calls :
        /\ log[c] \in ConnectionErrors
        /\ Succeeded(c)
        /\ log[d] \in ConnectionErrors
        /\ result[d].status = "Postgres"
        /\ result[d].data = "closed"

\* The rows the query of fetch_sigs(t) returns, in each order it can return
\* them in.
QueriedSigs(t) == Orderings(SelectSigs(signatures, txid_bytes(t)))

\* The last row of q that holds public key k.
LastRowOf(q, k) ==
    q[CHOOSE i \in 1..Len(q) :
        /\ from_slice(q[i].pubkey) = k
        /\ \A j \in 1..Len(q) : from_slice(q[j].pubkey) = k => j <= i]

\* One entry for every public key of the rows q, holding the signature of the
\* last row of that key.
LastWins(q) ==
    [k \in {from_slice(q[i].pubkey) : i \in 1..Len(q)} |->
        from_der(LastRowOf(q, k).signature)]

\* C14: fetch_sigs(t) returns, without an error, a mapping built from the rows
\* of txid t only: one entry for each public key stored under t and for no
\* other, holding the signature of the row of that key the query returned
\* last.
C14_LastRowWins ==
    [][/\ \A t \in Txids : \A q \in QueriedSigs(t) :
             InsertAll(EmptyMap, q) = LastWins(q)
       /\ \A c \in Calls :
             (op[c] = "fetch_sigs" /\ pc[c] = "query" /\ pc'[c] = "done"
                 /\ ~SessionFailed(c)') =>
                /\ result'[c].status = "Ok"
                /\ DOMAIN result'[c].data =
                      {k \in PublicKeys : \E r \in Range(signatures) :
                          /\ r.txid = txid_bytes(arg[c].txid)
                          /\ r.pubkey = serialize_pubkey(k)}
                /\ \E q \in QueriedSigs(arg[c].txid) : result'[c].data = LastWins(q)]_vars

\* Two rows of one txid share a public key, and fetch_sigs of that txid has
\* returned the one entry of that key with the signature of the first of the
\* two rows: the query returned that row last.
C14_Witness ==
    \E f \in Calls :
        /\ op[f] = "fetch_sigs"
        /\ Succeeded(f)
        /\ Len(signatures) = 2
        /\ signatures[1].txid = txid_bytes(arg[f].txid)
        /\ signatures[2].txid = txid_bytes(arg[f].txid)
        /\ signatures[1].pubkey = signatures[2].pubkey
        /\ DOMAIN result[f].data = {from_slice(signatures[1].pubkey)}
        /\ result[f].data[from_slice(signatures[1].pubkey)] = from_der(signatures[1].signature)

\* The committed spend_txs rows hold the serialized bytes of the transaction
\* of call c.
BytesPresent(c) ==
    \E r \in Range(spend_txs) : r.transaction = serialize_tx(arg[c].transaction)

NoDanglingOutpoint(txs, ops) ==
    \A r \in Range(ops) : \E t \in Range(txs) : t.txid = r.spend_txid

C16_NoDangling == NoDanglingOutpoint(spend_txs, spend_outpoints)

\* The store_spend_tx calls that have returned Ok.
Stored == {c \in StoreSpendTxCalls : Succeeded(c)}

\* The committed rows after store_spend_tx call c ran alone, from its first
\* statement to its commit, on the committed rows st.
RunAlone(st, c) ==
    [txs |-> InsertOrNothing(st.txs, SpendTxRow(arg[c].transaction),
                             UniqueOf(catalog, "spend_txs")),
     ops |-> UpsertAll(st.ops, OutpointRows(c))]

\* The committed rows after the calls of p ran one after the other.
RECURSIVE RunSerially(_, _)
RunSerially(st, p) ==
    IF p = <<>> THEN st ELSE RunSerially(RunAlone(st, Head(p)), Tail(p))

\* Every order of the calls of S.
OrdersOf(S) ==
    {p \in [1..Cardinality(S) -> S] : \A i, j \in 1..Cardinality(S) : p[i] = p[j] => i = j}

\* The outpoints that c and d both claimed and no other successful call did.
CommonOutPoints(c, d) ==
    (OutPointsOf(c) \cap OutPointsOf(d))
        \ UNION {OutPointsOf(e) : e \in Stored \ {c, d}}

StoredFor(o) == {arg[c].transaction : c \in {c \in Stored : o \in OutPointsOf(c)}}

====
